---- MODULE Spec2Model ----
(***************************************************************************)
(* Flask-Injector (flask_injector.py): the per-request scope               *)
(* (RequestScope), the view adapter (InjectorView.dispatch_request), the   *)
(* decorator bridge (decorator / decorator.State) and the application      *)
(* builder (Builder._configure and friends).                               *)
(*                                                                         *)
(* Spec      : request handling on worker threads.                         *)
(* SpecBuild : decoration of handlers followed by Builder.build().         *)
(***************************************************************************)
EXTENDS Integers, Sequences, FiniteSets, TLC

\* ---------------------------------------------------------------- bounds
MaxReq == 3            \* requests dispatched in all
MaxDecorations == 2    \* uses of a decorator bridge before build()
MaxViews == 2          \* length of the builder's view list

\* Worker threads: the one on which RequestScope.configure() ran, and another.
ConfigThread == "main"
Threads == {ConfigThread, "worker"}

\* Request-scoped binding keys known to the container.
Keys == {"db", "sess"}
\* A singleton-scoped binding (flask.Config): resolved without RequestScope.
CfgKey == "cfg"
\* A dependency the container cannot resolve.
NoKey == "nokey"

EmptyDict == [k \in {} |-> k]
RouteValue == <<"route", "", 0>>
NoInst == <<"none", "", 0>>
Inst(t, n) == <<"inst", t, n>>
CfgInst == <<"inst", "app", 0>>

\* Handlers given to InjectorView.__init__: cls = handler_class is set, cdeps =
\* request-scoped dependencies of the owning class' constructor, inj = the
\* handler carries __bindings__, bdeps = the names of those bindings in the
\* order the container resolves them.
Handlers ==
  { [cls |-> c, cdeps |-> cd, inj |-> i, bdeps |-> bd] :
      c \in BOOLEAN, cd \in {<<>>, <<"db">>}, i \in BOOLEAN,
      bd \in {<<>>, <<CfgKey>>, <<"sess", "db">>, <<"db", NoKey>>} }

ValidHandler(h) ==
  /\ (~h.cls => h.cdeps = <<>>)
  /\ (h.inj <=> h.bdeps # <<>>)

\* Route parameters the framework passes as **kwargs.
KwargsSet == { EmptyDict, [k \in {"db", "id"} |-> RouteValue] }

NoHandler == [cls |-> FALSE, cdeps |-> <<>>, inj |-> FALSE, bdeps |-> <<>>]
NoCall == [made |-> FALSE, bound |-> FALSE, args |-> EmptyDict, exc |-> "none"]
NoGet == [op |-> "none", key |-> "", hit |-> FALSE, raised |-> FALSE, invoked |-> FALSE,
          ret |-> NoInst, prev |-> NoInst, fresh |-> FALSE, old |-> NoInst, nBefore |-> 0,
          epochInv |-> 0]

VARIABLES
  hasScope,   \* hasScope[t]: the Local has a "scope" attribute on thread t
  scope,      \* scope[t]: self._locals.scope as seen from thread t
  serial,     \* serial[t]: number of instances providers created on thread t
  pc,         \* pc[t]: position of thread t inside dispatch_request
  handler,    \* handler[t]: self._handler / self._handler_class of the view
  kwargs,     \* kwargs[t]: route parameters of the request
  pending,    \* pending[t]: dependencies the container still has to resolve
  bindings,   \* bindings[t]: result of args_to_inject so far
  bound,      \* bound[t]: local `handler` is bound to a resolved instance
  call,       \* call[t]: the invocation made at line 90 or line 97
  raising,    \* raising[t]: exception in flight while the finally block runs
  outcome,    \* outcome[t]: what the caller of dispatch_request observed
  resetRan,   \* resetRan[t]: reset() ran in this request after the handler
  reqNo,      \* reqNo[t]: requests started on thread t
  seen,       \* seen[t][k]: instance returned by get(k) earlier in this request, since the last reset
  provCount,  \* provCount[t][k]: provider invocations for k in this request, since the last reset
  afterReset, \* afterReset[t][k]: reset() ran on t and no get(k) has returned since
  lastGet,    \* lastGet[t]: record of the latest RequestScope.get on thread t
  dropped,    \* dropped[t][k]: the instance under k that the latest reset() on t discarded
  lastOp,     \* latest scope operation: <<op, thread>>
  \* ---- build time
  bridgeArgs, \* bridgeArgs[b]: State.args of decorator bridge b
  decos,      \* decos[h]: f.__decorators__ of handler h (references to State objects)
  captured,   \* captured[h]: arguments given at each decoration of h
  views,      \* Builder._views
  bpc,        \* position: "decorate" (module import), "views" (inside build()), "done", "failed"
  bidx,       \* index into Builder._views of the view _configure handles next
  routes,     \* rules registered with app.add_url_rule, in order
  buildError  \* exception that build() raised

rvars == <<hasScope, scope, serial, pc, handler, kwargs, pending, bindings, bound, call,
           raising, outcome, resetRan, reqNo, seen, provCount, afterReset, lastGet, dropped, lastOp>>
bvars == <<bridgeArgs, decos, captured, views, bpc, bidx, routes, buildError>>
vars == <<rvars, bvars>>

\* ------------------------------------------------------------ RequestScope

\* A reset that treats the store as one object shared by all threads.
resetShared(hs, sc, t) ==
  [has |-> [hs EXCEPT ![t] = TRUE],
   sc  |-> [u \in Threads |-> EmptyDict]]

\* RequestScope.reset(): LocalManager.cleanup() releases the calling thread's
\* storage of the Local, then `scope` is set to an empty dict on that thread.
reset(hs, sc, t) ==
  LET released == [hs EXCEPT ![t] = FALSE]
  IN [has |-> [released EXCEPT ![t] = TRUE],
      sc  |-> [sc EXCEPT ![t] = EmptyDict]]

\* RequestScope.configure(): a new Local, then reset() on the calling thread.
configure(t) ==
  reset([u \in Threads |-> FALSE], [u \in Threads |-> EmptyDict], t)

\* A get that never looks the key up and calls the provider every time.
getUncached(hs, sc, ser, t, key) ==
  IF ~hs[t]
    THEN [raised |-> TRUE, hit |-> FALSE, invoked |-> FALSE, ret |-> NoInst,
          sc |-> sc, ser |-> ser]
  ELSE LET new == Inst(t, ser[t] + 1)
       IN [raised |-> FALSE, hit |-> FALSE, invoked |-> TRUE, ret |-> new,
           sc |-> [sc EXCEPT ![t] = (key :> new) @@ sc[t]],
           ser |-> [ser EXCEPT ![t] = ser[t] + 1]]

\* RequestScope.get(key, provider) on thread t.  Reading self._locals.scope on a
\* thread whose Local has no `scope` attribute raises AttributeError, which the
\* `except KeyError` does not catch.
get(hs, sc, ser, t, key) ==
  IF ~hs[t]
    THEN [raised |-> TRUE, hit |-> FALSE, invoked |-> FALSE, ret |-> NoInst,
          sc |-> sc, ser |-> ser]
  ELSE IF key \in DOMAIN sc[t]
    THEN [raised |-> FALSE, hit |-> TRUE, invoked |-> FALSE, ret |-> sc[t][key],
          sc |-> sc, ser |-> ser]
  ELSE LET new == Inst(t, ser[t] + 1)
       IN [raised |-> FALSE, hit |-> FALSE, invoked |-> TRUE, ret |-> new,
           sc |-> [sc EXCEPT ![t] = (key :> new) @@ sc[t]],
           ser |-> [ser EXCEPT ![t] = ser[t] + 1]]

\* Bookkeeping of a get on thread t (history only).
GetRecord(t, key, g) ==
  [op |-> "get", key |-> key, hit |-> g.hit, raised |-> g.raised, invoked |-> g.invoked,
   ret |-> g.ret, prev |-> seen[t][key], fresh |-> afterReset[t][key], old |-> dropped[t][key],
   nBefore |-> serial[t],
   epochInv |-> provCount[t][key] + (IF g.invoked THEN 1 ELSE 0)]

NoteGet(t, key, g) ==
  /\ lastGet' = [lastGet EXCEPT ![t] = GetRecord(t, key, g)]
  /\ lastOp' = <<"get", t>>
  /\ UNCHANGED dropped
  /\ IF g.raised
       THEN UNCHANGED <<seen, provCount, afterReset>>
       ELSE /\ seen' = [seen EXCEPT ![t][key] = g.ret]
            /\ provCount' = [provCount EXCEPT ![t][key] = @ + (IF g.invoked THEN 1 ELSE 0)]
            /\ afterReset' = [afterReset EXCEPT ![t][key] = FALSE]

\* ------------------------------------------------- InjectorView.dispatch_request

\* The merge with the operands swapped: dict(kwargs, **bindings).
MergeArgsInjectedWin(b, kw) == b @@ kw

\* dict(bindings, **kwargs): keyword arguments override the entries of bindings.
MergeArgs(b, kw) == kw @@ b

\* hasattr(handler, '__bindings__')
HasBindings(h) == h.inj

RInit ==
  /\ hasScope = configure(ConfigThread).has
  /\ scope = configure(ConfigThread).sc
  /\ serial = [t \in Threads |-> 0]
  /\ pc = [t \in Threads |-> "idle"]
  /\ handler = [t \in Threads |-> NoHandler]
  /\ kwargs = [t \in Threads |-> EmptyDict]
  /\ pending = [t \in Threads |-> <<>>]
  /\ bindings = [t \in Threads |-> EmptyDict]
  /\ bound = [t \in Threads |-> FALSE]
  /\ call = [t \in Threads |-> NoCall]
  /\ raising = [t \in Threads |-> "none"]
  /\ outcome = [t \in Threads |-> "none"]
  /\ resetRan = [t \in Threads |-> FALSE]
  /\ reqNo = [t \in Threads |-> 0]
  /\ seen = [t \in Threads |-> [k \in Keys |-> NoInst]]
  /\ provCount = [t \in Threads |-> [k \in Keys |-> 0]]
  /\ afterReset = [t \in Threads |-> [k \in Keys |-> t = ConfigThread]]
  /\ lastGet = [t \in Threads |-> NoGet]
  /\ dropped = [t \in Threads |-> [k \in Keys |-> NoInst]]
  /\ lastOp = <<"configure", ConfigThread>>

RECURSIVE SumOver(_, _)
SumOver(f, S) ==
  IF S = {} THEN 0 ELSE LET x == CHOOSE y \in S : TRUE IN f[x] + SumOver(f, S \ {x})

Started == SumOver(reqNo, Threads)

\* The framework calls dispatch_request(**kw) of the view of handler h on thread
\* t.  Lines 84-86: the scope handle is fetched, `handler = self._handler`.
Start(t, h, kw) ==
  /\ pc[t] = "idle"
  /\ Started < MaxReq
  /\ ValidHandler(h)
  /\ reqNo' = [reqNo EXCEPT ![t] = @ + 1]
  /\ handler' = [handler EXCEPT ![t] = h]
  /\ kwargs' = [kwargs EXCEPT ![t] = kw]
  /\ pending' = [pending EXCEPT ![t] = IF h.cls THEN h.cdeps ELSE <<>>]
  /\ pc' = [pc EXCEPT ![t] = IF h.cls THEN "instance" ELSE "check"]
  /\ UNCHANGED <<hasScope, scope, serial, bindings, bound, call, raising, outcome, resetRan,
                 seen, provCount, afterReset, lastGet, dropped, lastOp>>
  /\ UNCHANGED bvars

\* Line 87: self._injector.get(self._handler_class) constructs the instance; each
\* request-scoped constructor dependency goes through RequestScope.get.  An
\* exception leaves dispatch_request at once (no try block is open yet).
InstanceGet(t) ==
  /\ pc[t] = "instance"
  /\ pending[t] # <<>>
  /\ LET key == Head(pending[t])
         g == get(hasScope, scope, serial, t, key)
     IN /\ scope' = g.sc
        /\ serial' = g.ser
        /\ NoteGet(t, key, g)
        /\ IF g.raised
             THEN /\ pc' = [pc EXCEPT ![t] = "returned"]
                  /\ outcome' = [outcome EXCEPT ![t] = "AttributeError"]
                  /\ pending' = [pending EXCEPT ![t] = <<>>]
             ELSE /\ pending' = [pending EXCEPT ![t] = Tail(@)]
                  /\ UNCHANGED <<pc, outcome>>
  /\ UNCHANGED <<hasScope, handler, kwargs, bindings, bound, call, raising, resetRan, reqNo>>
  /\ UNCHANGED bvars

\* Line 88: handler = self._handler.__get__(instance, self._handler_class)
Bind(t) ==
  /\ pc[t] = "instance"
  /\ pending[t] = <<>>
  /\ bound' = [bound EXCEPT ![t] = TRUE]
  /\ pc' = [pc EXCEPT ![t] = "check"]
  /\ UNCHANGED <<hasScope, scope, serial, handler, kwargs, pending, bindings, call, raising,
                 outcome, resetRan, reqNo, seen, provCount, afterReset, lastGet, dropped, lastOp>>
  /\ UNCHANGED bvars

\* Lines 89-90: a handler without __bindings__ is called with the route
\* parameters and its result (or exception) leaves dispatch_request directly.
CallDirect(t, raises) ==
  /\ pc[t] = "check"
  /\ ~HasBindings(handler[t])
  /\ LET exc == IF raises THEN "HandlerError" ELSE "none"
     IN /\ call' = [call EXCEPT ![t] = [made |-> TRUE, bound |-> bound[t], args |-> kwargs[t],
                                        exc |-> exc]]
        /\ outcome' = [outcome EXCEPT ![t] = IF exc = "none" THEN "returned" ELSE exc]
  /\ pc' = [pc EXCEPT ![t] = "returned"]
  /\ UNCHANGED <<hasScope, scope, serial, handler, kwargs, pending, bindings, bound, raising,
                 resetRan, reqNo, seen, provCount, afterReset, lastGet, dropped, lastOp>>
  /\ UNCHANGED bvars

\* Lines 89, 91: the handler has __bindings__; args_to_inject starts.
BeginInject(t) ==
  /\ pc[t] = "check"
  /\ HasBindings(handler[t])
  /\ pending' = [pending EXCEPT ![t] = handler[t].bdeps]
  /\ pc' = [pc EXCEPT ![t] = "inject"]
  /\ UNCHANGED <<hasScope, scope, serial, handler, kwargs, bindings, bound, call, raising,
                 outcome, resetRan, reqNo, seen, provCount, afterReset, lastGet, dropped, lastOp>>
  /\ UNCHANGED bvars

\* Lines 91-95: args_to_inject resolves one binding.  A binding the container
\* cannot resolve, or a failing RequestScope.get, raises out of
\* dispatch_request before the try block of line 96 is entered.
InjectGet(t) ==
  /\ pc[t] = "inject"
  /\ pending[t] # <<>>
  /\ LET key == Head(pending[t])
     IN IF key = NoKey
          THEN /\ pc' = [pc EXCEPT ![t] = "returned"]
               /\ outcome' = [outcome EXCEPT ![t] = "UnresolvedError"]
               /\ pending' = [pending EXCEPT ![t] = <<>>]
               /\ UNCHANGED <<scope, serial, bindings, seen, provCount, afterReset, lastGet, dropped, lastOp>>
        ELSE IF key = CfgKey
          THEN /\ pending' = [pending EXCEPT ![t] = Tail(@)]
               /\ bindings' = [bindings EXCEPT ![t] = (key :> CfgInst) @@ @]
               /\ UNCHANGED <<pc, outcome, scope, serial, seen, provCount, afterReset, lastGet, dropped, lastOp>>
          ELSE LET g == get(hasScope, scope, serial, t, key)
               IN /\ scope' = g.sc
                  /\ serial' = g.ser
                  /\ NoteGet(t, key, g)
                  /\ IF g.raised
                       THEN /\ pc' = [pc EXCEPT ![t] = "returned"]
                            /\ outcome' = [outcome EXCEPT ![t] = "AttributeError"]
                            /\ pending' = [pending EXCEPT ![t] = <<>>]
                            /\ UNCHANGED bindings
                       ELSE /\ pending' = [pending EXCEPT ![t] = Tail(@)]
                            /\ bindings' = [bindings EXCEPT ![t] = (key :> g.ret) @@ @]
                            /\ UNCHANGED <<pc, outcome>>
  /\ UNCHANGED <<hasScope, handler, kwargs, bound, call, raising, resetRan, reqNo>>
  /\ UNCHANGED bvars

\* Lines 96-97: self._handler(**dict(bindings, **kwargs)).  self._handler is the
\* handler as given to the view: for a class-based view the unbound method,
\* whose call without an instance raises TypeError before the body runs.
CallInjected(t, raises) ==
  /\ pc[t] = "inject"
  /\ pending[t] = <<>>
  /\ LET exc == IF handler[t].cls THEN "TypeError"
                ELSE IF raises THEN "HandlerError" ELSE "none"
     IN /\ call' = [call EXCEPT ![t] = [made |-> TRUE, bound |-> FALSE,
                                        args |-> MergeArgs(bindings[t], kwargs[t]),
                                        exc |-> exc]]
        /\ raising' = [raising EXCEPT ![t] = exc]
  /\ pc' = [pc EXCEPT ![t] = "finally"]
  /\ UNCHANGED <<hasScope, scope, serial, handler, kwargs, pending, bindings, bound, outcome,
                 resetRan, reqNo, seen, provCount, afterReset, lastGet, dropped, lastOp>>
  /\ UNCHANGED bvars

\* Lines 98-99: finally: request_scope.reset(); then the result is returned or
\* the exception continues to the caller.
Finally(t) ==
  /\ pc[t] = "finally"
  /\ LET r == reset(hasScope, scope, t)
     IN /\ hasScope' = r.has
        /\ scope' = r.sc
  /\ resetRan' = [resetRan EXCEPT ![t] = TRUE]
  /\ afterReset' = [afterReset EXCEPT ![t] = [k \in Keys |-> TRUE]]
  /\ seen' = [seen EXCEPT ![t] = [k \in Keys |-> NoInst]]
  /\ provCount' = [provCount EXCEPT ![t] = [k \in Keys |-> 0]]
  /\ dropped' = [dropped EXCEPT ![t] =
                    [k \in Keys |-> IF k \in DOMAIN scope[t] THEN scope[t][k] ELSE @[k]]]
  /\ lastOp' = <<"reset", t>>
  /\ outcome' = [outcome EXCEPT ![t] = IF raising[t] = "none" THEN "returned" ELSE raising[t]]
  /\ pc' = [pc EXCEPT ![t] = "returned"]
  /\ UNCHANGED <<serial, handler, kwargs, pending, bindings, bound, call, raising, reqNo, lastGet>>
  /\ UNCHANGED bvars

\* dispatch_request has returned or raised; the worker thread goes back to the
\* framework's loop and the frame of the call is gone.
Leave(t) ==
  /\ pc[t] = "returned"
  /\ pc' = [pc EXCEPT ![t] = "idle"]
  /\ handler' = [handler EXCEPT ![t] = NoHandler]
  /\ kwargs' = [kwargs EXCEPT ![t] = EmptyDict]
  /\ bindings' = [bindings EXCEPT ![t] = EmptyDict]
  /\ bound' = [bound EXCEPT ![t] = FALSE]
  /\ call' = [call EXCEPT ![t] = NoCall]
  /\ raising' = [raising EXCEPT ![t] = "none"]
  /\ outcome' = [outcome EXCEPT ![t] = "none"]
  /\ resetRan' = [resetRan EXCEPT ![t] = FALSE]
  /\ seen' = [seen EXCEPT ![t] = [k \in Keys |-> NoInst]]
  /\ provCount' = [provCount EXCEPT ![t] = [k \in Keys |-> 0]]
  /\ lastGet' = [lastGet EXCEPT ![t] = NoGet]
  /\ UNCHANGED <<hasScope, scope, serial, pending, reqNo, afterReset, dropped, lastOp>>
  /\ UNCHANGED bvars

Next ==
  \E t \in Threads :
    \/ \E h \in Handlers, kw \in KwargsSet : Start(t, h, kw)
    \/ InstanceGet(t)
    \/ Bind(t)
    \/ \E raises \in BOOLEAN : CallDirect(t, raises)
    \/ BeginInject(t)
    \/ InjectGet(t)
    \/ \E raises \in BOOLEAN : CallInjected(t, raises)
    \/ Finally(t)
    \/ Leave(t)

\* --------------------------------------------------- decorator bridge, Builder

\* Decorator bridge objects (instances of `decorator`) and the arguments they
\* are called with.
Bridges == {"cached", "login"}
DecoArgs == {"timeout30", "timeout60"}
NoArgs == "None"

\* Views: functions carry __view__ = (args, kwargs); classes may carry a
\* class-level __view__ and have methods that carry one.
Method(n, p, o) == [name |-> n, path |-> p, opts |-> o]
FuncView(n, p) ==
  [kind |-> "func", name |-> n, hasMarker |-> TRUE, margs |-> <<p>>, copts |-> EmptyDict,
   methods |-> <<>>]
ClassView(n, marked, args, o, ms) ==
  [kind |-> "class", name |-> n, hasMarker |-> marked, margs |-> args, copts |-> o,
   methods |-> ms]

Get == ("methods" :> "GET")
Post == ("methods" :> "POST")

ViewSet ==
  { FuncView("foo", "/foo"),
    FuncView("bar", "/bar"),
    ClassView("Waz", TRUE, <<"/waz">>, Get,
              <<Method("Waz.detail", "/detail", EmptyDict), Method("Waz.edit", "/edit", Post)>>),
    ClassView("Plain", FALSE, <<>>, EmptyDict, <<Method("Plain.index", "/index", EmptyDict)>>),
    ClassView("Two", TRUE, <<"/a", "/b">>, EmptyDict, <<Method("Two.show", "/show", EmptyDict)>>) }

\* Callables a decorator bridge can decorate.
HandlerNames == {"foo", "bar", "Waz.detail", "Waz.edit", "Plain.index", "Two.show"}

ViewLists ==
  { vs \in UNION { [1..n -> ViewSet] : n \in 1..MaxViews } :
      \A i, j \in 1..Len(vs) : i # j => vs[i] # vs[j] }

\* decorator.__call__ followed by wrap(f): the bridge's single State object
\* takes the arguments of this call, and f.__decorators__ gets a reference to
\* that State.
BridgeCall(ba, b, a) == [ba EXCEPT ![b] = a]

\* decorator.State.apply for every state in view.__decorators__, in order: each
\* wraps the view with the decorator parameterized by the State's args as they
\* are when build() runs.
ApplyDecorators(h, ba, ds) ==
  [i \in 1..Len(ds[h]) |-> <<ds[h][i], ba[ds[h][i]]>>]

\* Builder._install_route: the decorated view is registered under args/kwargs.
InstallRoute(rs, h, cls, path, opts, ba, ds) ==
  Append(rs, [path |-> path, handler |-> h, cls |-> cls, opts |-> opts,
              wraps |-> ApplyDecorators(h, ba, ds)])

\* The loop of _reflect_views_from_class over the marked methods (getmembers
\* yields them sorted by name).
RECURSIVE ReflectMethods(_, _, _, _, _, _, _)
ReflectMethods(rs, cls, prefix, copts, ms, ba, ds) ==
  IF ms = <<>> THEN rs
  ELSE LET m == Head(ms)
       IN ReflectMethods(
            InstallRoute(rs, m.name, cls, prefix \o m.path, m.opts @@ copts, ba, ds),
            cls, prefix, copts, Tail(ms), ba, ds)

\* Builder._reflect_views_from_class.  Line 273 asserts the shape of a present
\* marker; line 276 subscripts class_view even when it is None.
ReflectViewsFromClass(rs, v, ba, ds) ==
  IF v.hasMarker /\ Len(v.margs) # 1
    THEN [err |-> "AssertionError", routes |-> rs]
  ELSE IF ~v.hasMarker
    THEN [err |-> "TypeError", routes |-> rs]
  ELSE [err |-> "none",
        routes |-> ReflectMethods(rs, v.name, v.margs[1], v.copts, v.methods, ba, ds)]

\* One iteration of the `for view in self._views` loop of Builder._configure.
ConfigureOne(rs, v, ba, ds) ==
  IF v.kind = "class"
    THEN ReflectViewsFromClass(rs, v, ba, ds)
    ELSE [err |-> "none",
          routes |-> InstallRoute(rs, v.name, "", v.margs[1], EmptyDict, ba, ds)]

BInit ==
  /\ bridgeArgs = [b \in Bridges |-> NoArgs]
  /\ decos = [h \in HandlerNames |-> <<>>]
  /\ captured = [h \in HandlerNames |-> <<>>]
  /\ views \in ViewLists
  /\ bpc = "decorate"
  /\ bidx = 1
  /\ routes = <<>>
  /\ buildError = "none"

DecorationCount ==
  LET RECURSIVE Sum(_)
      Sum(S) == IF S = {} THEN 0
                ELSE LET h == CHOOSE x \in S : TRUE IN Len(decos[h]) + Sum(S \ {h})
  IN Sum(HandlerNames)

\* @bridge(a) above handler h, at import time.
Decorate(b, h, a) ==
  /\ bpc = "decorate"
  /\ DecorationCount < MaxDecorations
  /\ bridgeArgs' = BridgeCall(bridgeArgs, b, a)
  /\ decos' = [decos EXCEPT ![h] = Append(@, b)]
  /\ captured' = [captured EXCEPT ![h] = Append(@, a)]
  /\ UNCHANGED <<views, bpc, bidx, routes, buildError>>
  /\ UNCHANGED rvars

\* Builder.build() up to the view loop: Injector(self._configure) creates the
\* app and installs the modules.
BeginBuild ==
  /\ bpc = "decorate"
  /\ bpc' = "views"
  /\ UNCHANGED <<bridgeArgs, decos, captured, views, bidx, routes, buildError>>
  /\ UNCHANGED rvars

\* The view loop handles views[bidx]; an exception ends build().
ConfigureView ==
  /\ bpc = "views"
  /\ bidx <= Len(views)
  /\ LET r == ConfigureOne(routes, views[bidx], bridgeArgs, decos)
     IN /\ routes' = r.routes
        /\ IF r.err = "none"
             THEN /\ bidx' = bidx + 1
                  /\ UNCHANGED <<bpc, buildError>>
             ELSE /\ bpc' = "failed"
                  /\ buildError' = r.err
                  /\ UNCHANGED bidx
  /\ UNCHANGED <<bridgeArgs, decos, captured, views>>
  /\ UNCHANGED rvars

\* build() returns the app.
FinishBuild ==
  /\ bpc = "views"
  /\ bidx > Len(views)
  /\ bpc' = "done"
  /\ UNCHANGED <<bridgeArgs, decos, captured, views, bidx, routes, buildError>>
  /\ UNCHANGED rvars

BNext ==
  \/ \E b \in Bridges, h \in HandlerNames, a \in DecoArgs : Decorate(b, h, a)
  \/ BeginBuild
  \/ ConfigureView
  \/ FinishBuild

\* ------------------------------------------------------------ specifications

\* Request handling of an application whose build is over.
Init ==
  /\ RInit
  /\ bridgeArgs = [b \in Bridges |-> NoArgs]
  /\ decos = [h \in HandlerNames |-> <<>>]
  /\ captured = [h \in HandlerNames |-> <<>>]
  /\ views = <<>>
  /\ bpc = "done"
  /\ bidx = 1
  /\ routes = <<>>
  /\ buildError = "none"

Spec == Init /\ [][Next]_vars

\* Decoration and build; no request is in flight.
InitBuild == RInit /\ BInit

SpecBuild == InitBuild /\ [][BNext]_vars

\* ------------------------------------------------------------------ claims

InFlight(t) == pc[t] \in {"instance", "check", "inject", "finally"}

\* C1: every dispatch_request that invoked the handler has run
\* RequestScope.reset() by the time it returns or raises, and what the caller
\* observes is the handler's own result or exception.
C1_ResetBeforeReturn ==
  \A t \in Threads :
    (pc[t] = "returned" /\ call[t].made) =>
      /\ resetRan[t]
      /\ outcome[t] = (IF call[t].exc = "none" THEN "returned" ELSE call[t].exc)

\* C2: between requests (before one starts, after one ended, whatever its
\* outcome) the request-scope store of the thread has no entry.
C2_StoreEmptyBetweenRequests ==
  \A t \in Threads :
    pc[t] \in {"idle", "returned"} => DOMAIN scope[t] = {}

\* C3: whenever the handler of a class-based view is invoked, the callable
\* invoked is the handler bound to the instance resolved in this dispatch.
C3_BoundHandlerInvoked ==
  \A t \in Threads :
    (call[t].made /\ handler[t].cls) => call[t].bound

\* C4: on any worker thread RequestScope.get does not raise; for an absent key
\* it invokes the provider, stores and returns the result, for a present key it
\* returns the stored entry.
C4_GetOnAnyThread ==
  \A t \in Threads :
    LET g == lastGet[t]
    IN g.op = "get" =>
         /\ ~g.raised
         /\ g.hit <=> ~g.invoked
         /\ lastOp = <<"get", t>> =>
              (g.key \in DOMAIN scope[t] /\ scope[t][g.key] = g.ret)

\* C5: with requests in flight on different threads, every instance a thread's
\* store holds and every instance a get returns on that thread was created on
\* that thread, and a reset() on one thread leaves the store of every other
\* thread as it was.
C5_ThreadIsolation ==
  /\ [](\A t \in Threads :
          /\ \A k \in DOMAIN scope[t] : scope[t][k][2] = t
          /\ (lastGet[t].op = "get" /\ ~lastGet[t].raised) => lastGet[t].ret[2] = t)
  /\ [][\A t \in Threads :
          (pc[t] = "finally" /\ pc'[t] = "returned") =>
            \A u \in Threads \ {t} : scope'[u] = scope[u] /\ hasScope'[u] = hasScope[u]]_vars

\* C5 witness: main's request, which held its own "db" instance, has just run
\* reset() while a request on the other worker thread is in flight and holds a
\* "db" instance of its own.
C5_Witness ==
  /\ lastOp = <<"reset", ConfigThread>>
  /\ "db" \in DOMAIN bindings[ConfigThread]
  /\ dropped[ConfigThread]["db"] = bindings[ConfigThread]["db"]
  /\ \E u \in Threads \ {ConfigThread} :
       /\ InFlight(u)
       /\ "db" \in DOMAIN scope[u]
       /\ scope[u]["db"] # dropped[ConfigThread]["db"]

\* C9: a get that returns after an earlier get of the same key returned in the
\* same request (no reset between) returns that same instance without invoking
\* the provider, so the provider runs at most once per key between resets; the first
\* get of a key after a reset() invokes the provider and returns an instance
\* created by this call, different from the one the reset discarded.
C9_SingletonUntilReset ==
  \A t \in Threads :
    LET g == lastGet[t]
    IN (g.op = "get" /\ ~g.raised) =>
         /\ g.prev # NoInst => (g.ret = g.prev /\ ~g.invoked)
         /\ g.epochInv <= 1
         /\ g.fresh => (g.invoked /\ g.ret # g.old /\ g.ret[3] > g.nBefore)

\* C9 witness: in a later request on a thread, "db" was fetched twice; the
\* first fetch followed a reset() that discarded an earlier "db" instance and
\* created a new one, the second fetch returned that new one.
C9_Witness ==
  \E t \in Threads :
    LET g == lastGet[t]
    IN /\ g.op = "get" /\ ~g.raised /\ g.key = "db"
       /\ g.prev # NoInst /\ g.ret = g.prev
       /\ g.old # NoInst /\ g.old # g.ret
       /\ provCount[t]["db"] = 1

\* C10: a handler with declared dependencies is invoked with the union of the
\* injected bindings and the route parameters, a name present in both carrying
\* the route parameter's value.
C10_RouteParamsWin ==
  \A t \in Threads :
    (call[t].made /\ HasBindings(handler[t])) =>
      /\ DOMAIN call[t].args = DOMAIN bindings[t] \cup DOMAIN kwargs[t]
      /\ \A n \in DOMAIN call[t].args :
           call[t].args[n] = (IF n \in DOMAIN kwargs[t] THEN kwargs[t][n] ELSE bindings[t][n])

\* C10 witness: the handler was invoked with "db" both injected and a route
\* parameter, "sess" injected only and "id" a route parameter only.
C10_Witness ==
  \E t \in Threads :
    /\ call[t].made /\ HasBindings(handler[t])
    /\ "db" \in DOMAIN bindings[t] \cap DOMAIN kwargs[t]
    /\ "sess" \in DOMAIN bindings[t] \ DOMAIN kwargs[t]
    /\ "id" \in DOMAIN kwargs[t] \ DOMAIN bindings[t]
    /\ bindings[t]["db"] # kwargs[t]["db"]

\* C6: every registered view is wrapped by each of its deferred decorators
\* parameterized with the arguments given when that handler was decorated.
C6_OwnDecorationArguments ==
  \A i \in 1..Len(routes) :
    LET r == routes[i]
    IN r.wraps = [j \in 1..Len(decos[r.handler]) |->
                    <<decos[r.handler][j], captured[r.handler][j]>>]

IsTwoPathClass(v) == v.kind = "class" /\ v.hasMarker /\ Len(v.margs) = 2

\* C7: with a class whose class-level marker has two positional arguments
\* anywhere in the view list, build() does not succeed, and when it fails on
\* that marker the application has no route.
C7_FailBeforeAnyRoute ==
  (\E i \in 1..Len(views) : IsTwoPathClass(views[i])) =>
    /\ bpc # "done"
    /\ (bpc = "failed" /\ buildError = "AssertionError") => routes = <<>>

\* C8: for a class-based view whose marker is absent or carries one path,
\* build() does not fail on that class, and once the class is handled every
\* marked method has a route at prefix + method path (prefix "" without marker).
C8_PrefixedClassRoutes ==
  \A i \in 1..Len(views) :
    LET v == views[i]
        prefix == IF v.hasMarker THEN v.margs[1] ELSE ""
    IN (v.kind = "class" /\ (v.hasMarker => Len(v.margs) = 1)) =>
         /\ ~(bpc = "failed" /\ bidx = i)
         /\ (bpc \in {"views", "done"} /\ bidx > i) =>
              \A k \in 1..Len(v.methods) :
                \E j \in 1..Len(routes) :
                  /\ routes[j].handler = v.methods[k].name
                  /\ routes[j].cls = v.name
                  /\ routes[j].path = prefix \o v.methods[k].path

====
